---- MODULE Spec2Model ----
(***************************************************************************)
(* State-machine model of src/actualisation.py: a Streamlit dashboard      *)
(* whose script is re-executed top to bottom on every user interaction.   *)
(* The session state, the widget states and the outcome of the last       *)
(* script run are the variables; each user interaction (button press,     *)
(* dropdown change, polygon drawn) is one action that executes the whole  *)
(* script run it triggers.  st.rerun() schedules a further run, which is  *)
(* the action Rerun.                                                      *)
(***************************************************************************)
EXTENDS Integers, Sequences, FiniteSets, TLC

VARIABLES
    se_src,         \* remote SE.geojson: sequence of polygon features
    csv,            \* remote concession.csv: [columns, rows]
    session_state,  \* st.session_state: function from the keys present to values
    widgets,        \* state of the four sidebar selectboxes
    all_drawings,   \* state of the map component: features drawn so far
    run,            \* what the last script run did and showed
    rerun           \* TRUE when st.rerun() was called and the next run is due

vars == <<se_src, csv, session_state, widgets, all_drawings, run, rerun>>

(***************************************************************************)
(* Bounds of the model.                                                    *)
(***************************************************************************)
\* most polygon features in the remote SE file
NPoly == 2
\* most rows in the remote points CSV
NRows == 2

(***************************************************************************)
(* Text.  A Python str is a sequence of code points; str comparison is    *)
(* lexicographic by code point, a proper prefix being smaller.            *)
(***************************************************************************)
RECURSIVE LexLess(_, _)
LexLess(a, b) ==
    IF b = <<>> THEN FALSE
    ELSE IF a = <<>> THEN TRUE
    ELSE IF Head(a) # Head(b) THEN Head(a) < Head(b)
    ELSE LexLess(Tail(a), Tail(b))

\* "A", "B": names of regions, cercles and communes
NameA == <<65>>
NameB == <<66>>
\* "10", "2": zone identifiers (idse_new)
Zone10 == <<49, 48>>
Zone2 == <<50>>
\* the literal "No filter" of line 142
NoFilter == <<78, 111, 32, 102, 105, 108, 116, 101, 114>>

\* Python None where a str is expected (username, user_role)
None == "None"

(***************************************************************************)
(* USERS (lines 20-23).                                                    *)
(***************************************************************************)
USERS ==
    [admin |-> [password |-> "admin2025", role |-> "Admin"],
     customer |-> [password |-> "cust2025", role |-> "Customer"]]

\* what a user may type into the password field
Passwords == {"admin2025", "cust2025", "", "letmein"}

(***************************************************************************)
(* Sequences as data frames.                                               *)
(***************************************************************************)
Range(s) == {s[i] : i \in DOMAIN s}

RECURSIVE unique(_)
\* Series.unique(): the distinct values in order of first appearance
unique(s) ==
    IF s = <<>> THEN <<>>
    ELSE LET rest == unique(SubSeq(s, 1, Len(s) - 1))
             last == s[Len(s)]
         IN IF last \in Range(rest) THEN rest ELSE Append(rest, last)

RECURSIVE Insert(_, _)
Insert(x, s) ==
    IF s = <<>> THEN <<x>>
    ELSE IF LexLess(x, Head(s)) THEN <<x>> \o s
    ELSE <<Head(s)>> \o Insert(x, Tail(s))

RECURSIVE InsertionSort(_)
InsertionSort(s) ==
    IF s = <<>> THEN <<>>
    ELSE Insert(s[Len(s)], InsertionSort(SubSeq(s, 1, Len(s) - 1)))

\* a sort that keeps the order of first appearance
UnsortedAs(s) == s

\* Python sorted() on a list of str
sorted(s) == InsertionSort(s)

Column(df, col) == [i \in DOMAIN df |-> df[i][col]]

(***************************************************************************)
(* Geometry.  A polygon feature of the SE file is an axis-parallel        *)
(* rectangle with corners (x1, y1) and (x2, y2), x1 < x2, y1 < y2, or a   *)
(* geometry that is invalid or empty.  A point has coordinates of type    *)
(* float: a number, an infinity or NaN.                                   *)
(***************************************************************************)
Rect(x1, y1, x2, y2) ==
    [kind |-> "Polygon", x1 |-> x1, y1 |-> y1, x2 |-> x2, y2 |-> y2]
InvalidGeom == [kind |-> "invalid", x1 |-> 0, y1 |-> 0, x2 |-> 0, y2 |-> 0]

Num(n) == [k |-> "num", v |-> n]
PosInf == [k |-> "inf", v |-> 0]
NaN == [k |-> "nan", v |-> 0]

\* shapely: the point and the polygon share at least one point (the closed
\* region); a comparison with an infinite coordinate is false
intersects(pt, g) ==
    /\ pt.LON.k = "num" /\ pt.LAT.k = "num"
    /\ g.x1 <= pt.LON.v /\ pt.LON.v <= g.x2
    /\ g.y1 <= pt.LAT.v /\ pt.LAT.v <= g.y2

\* shapely: the point lies in the interior of the polygon
within(pt, g) ==
    /\ pt.LON.k = "num" /\ pt.LAT.k = "num"
    /\ g.x1 < pt.LON.v /\ pt.LON.v < g.x2
    /\ g.y1 < pt.LAT.v /\ pt.LAT.v < g.y2

(***************************************************************************)
(* load_se_data (lines 66-86): the features whose geometry is valid and   *)
(* not empty.  The columns region, cercle, commune and idse_new are the   *)
(* renamed, lower-cased columns of the file.                              *)
(***************************************************************************)
IsValidGeom(r) == r.geometry.kind = "Polygon"

load_se_data(src) == SelectSeq(src, IsValidGeom)

(***************************************************************************)
(* CSV cells are text.  pandas reads a cell as a number when it is a      *)
(* numeric literal ("inf" is one), as NaN when it is blank.               *)
(***************************************************************************)
Digits == <<"0", "1", "2", "3", "4", "5", "6", "7", "8", "9">>
IsInt(tok) == \E i \in DOMAIN Digits : Digits[i] = tok
IntOf(tok) == (CHOOSE i \in DOMAIN Digits : Digits[i] = tok) - 1

\* pd.to_numeric(..., errors="coerce") on one cell
to_numeric(tok) ==
    IF IsInt(tok) THEN Num(IntOf(tok))
    ELSE IF tok = "inf" THEN PosInf
    ELSE NaN

\* the dtype pd.read_csv gives a column of the file
dtype(file, col) ==
    IF col \notin file.columns THEN "absent"
    ELSE IF \A i \in DOMAIN file.rows :
              IsInt(file.rows[i][col]) \/ file.rows[i][col] = ""
         THEN "float64"
         ELSE "object"

\* dropna(subset=["LAT", "LON"]) keeps a row when neither value is NaN
dropna(r) == to_numeric(r.LAT).k # "nan" /\ to_numeric(r.LON).k # "nan"

\* load_points (lines 95-106)
load_points(file) ==
    LET kept == SelectSeq(file.rows, dropna)
    IN [dtypes |-> [Masculin |-> dtype(file, "Masculin"),
                    Feminin |-> dtype(file, "Feminin")],
        rows |-> [i \in DOMAIN kept |->
                    [LAT |-> to_numeric(kept[i].LAT),
                     LON |-> to_numeric(kept[i].LON),
                     Masculin |-> kept[i].Masculin,
                     Feminin |-> kept[i].Feminin]]]

(***************************************************************************)
(* Aggregation.  A total is a number, a str (the concatenation pandas     *)
(* makes of an object column) or an exception.                            *)
(***************************************************************************)
RECURSIVE SumSeq(_)
SumSeq(s) == IF s = <<>> THEN 0 ELSE Head(s) + SumSeq(Tail(s))

RECURSIVE Decimal(_)
\* int() of a str of decimal digits, given as its sequence of characters
Decimal(s) ==
    IF s = <<>> THEN 0 ELSE 10 * Decimal(SubSeq(s, 1, Len(s) - 1)) + IntOf(s[Len(s)])

NumTotal(n) == [k |-> "num", v |-> n, s |-> <<>>]
StrTotal(s) == [k |-> "str", v |-> 0, s |-> s]
Raised == [k |-> "raise", v |-> 0, s |-> <<>>]

\* a cell as a number, NaN and text counted as zero
ZeroFilled(tok) == IF IsInt(tok) THEN IntOf(tok) ELSE 0

\* pd.to_numeric(pts.get(col), errors="coerce").fillna(0).sum(), lines 208-214:
\* pts.get of an absent column is None, to_numeric(None) is a scalar, and a
\* scalar has no fillna
coerced_sum(rows, dtypes, col) ==
    IF dtypes[col] = "absent" THEN Raised
    ELSE NumTotal(SumSeq([i \in DOMAIN rows |-> ZeroFilled(rows[i][col])]))

\* pts.get(col, pd.Series()).sum(), lines 259-260: no coercion.  A float64
\* column sums its numbers and skips NaN.  An object column holds str and
\* NaN: its sum is the concatenation of the strs, a TypeError when a NaN
\* (summed as 0) meets a str, and 0 when there is no row.
series_sum(rows, dtypes, col) ==
    LET cells == [i \in DOMAIN rows |-> rows[i][col]]
    IN CASE dtypes[col] = "absent" -> NumTotal(0)
         [] dtypes[col] = "float64" ->
                NumTotal(SumSeq([i \in DOMAIN cells |-> ZeroFilled(cells[i])]))
         [] OTHER ->
                IF cells = <<>> THEN NumTotal(0)
                ELSE IF \E i \in DOMAIN cells : cells[i] = "" THEN Raised
                ELSE StrTotal(cells)

\* a + b on two totals: str + number is a TypeError
Plus(a, b) ==
    CASE a.k = "raise" \/ b.k = "raise" -> Raised
      [] a.k = "num" /\ b.k = "num" -> NumTotal(a.v + b.v)
      [] a.k = "str" /\ b.k = "str" -> StrTotal(a.s \o b.s)
      [] OTHER -> Raised

\* int(x): of a str, its decimal value, a ValueError when it is not digits
ToInt(a) ==
    CASE a.k = "num" -> a
      [] a.k = "str" ->
            IF \A i \in DOMAIN a.s : IsInt(a.s[i]) THEN NumTotal(Decimal(a.s))
            ELSE Raised
      [] OTHER -> Raised

\* what a statistics block shows: nothing (not executed), the note for an
\* empty subset, the three totals, or an exception before they are shown
NoStats == [k |-> "none", m |-> 0, f |-> 0, t |-> 0]
EmptyNote == [k |-> "empty", m |-> 0, f |-> 0, t |-> 0]
StatsRaised == [k |-> "raise", m |-> 0, f |-> 0, t |-> 0]

\* the st.markdown of lines 216-222 and 262-268
Report(m, f) ==
    LET im == ToInt(m)
        if == ToInt(f)
        it == ToInt(Plus(m, f))
    IN IF im.k = "raise" \/ if.k = "raise" \/ it.k = "raise" THEN StatsRaised
       ELSE [k |-> "shown", m |-> im.v, f |-> if.v, t |-> it.v]

\* ax.pie([m, f]) and st.pyplot: normalising wedges that sum to zero gives
\* NaN angles, and drawing the wedge raises ValueError
PieRaises(st) == st.k = "shown" /\ st.m + st.f = 0

(***************************************************************************)
(* Session state (lines 28-40).  None for points_gdf is the empty tuple;  *)
(* a loaded frame f is <<f>>.                                             *)
(***************************************************************************)
NoneFrame == <<>>

NoKeys == [k \in {} |-> FALSE]

AuthOk(ss) == "auth_ok" \in DOMAIN ss /\ ss["auth_ok"]

\* lines 28-32
SessionInit(ss) ==
    IF "auth_ok" \notin DOMAIN ss
    THEN [auth_ok |-> FALSE, username |-> None, user_role |-> None,
          points_gdf |-> NoneFrame]
    ELSE ss

\* a logout that only clears the flag
LogoutFlagOnly(ss) == [ss EXCEPT !["auth_ok"] = FALSE]

\* logout(), lines 37-39: every key is deleted (st.rerun() is the caller's)
logout(ss) == [k \in (DOMAIN ss) \ (DOMAIN ss) |-> ss[k]]

\* a check that accepts the password of any user
AnyUserPassword(username, password) ==
    \E u \in DOMAIN USERS : password = USERS[u].password

\* line 51
PasswordMatches(username, password) == password = USERS[username]["password"]

(***************************************************************************)
(* Widgets.  A selectbox is identified by its label and its options: with *)
(* the options it had in the last run it keeps the value the user chose,  *)
(* with other options it is a new widget showing its first option.        *)
(***************************************************************************)
NoBox == [options |-> <<>>, value |-> <<>>]
NoWidgets == [Region |-> NoBox, Cercle |-> NoBox, Commune |-> NoBox, SE |-> NoBox]

\* a selectbox that keeps its value whatever the options are
StaleSelectbox(stored, options) ==
    IF stored.options = <<>> THEN [options |-> options, value |-> options[1]]
    ELSE [options |-> options, value |-> stored.value]

selectbox(stored, options) ==
    IF stored.options = options THEN stored
    ELSE [options |-> options, value |-> options[1]]

\* the user's interaction that starts a run
NoEvent == [kind |-> "none", username |-> None, password |-> ""]

(***************************************************************************)
(* The spatial joins.                                                      *)
(***************************************************************************)
Holds(predicate, pt, g) ==
    IF predicate = "intersects" THEN intersects(pt, g) ELSE within(pt, g)

RECURSIVE sjoin(_, _, _)
\* gpd.sjoin(points, polygons, predicate=..., how="inner"): one row for every
\* pair of a point and a polygon the predicate holds of, in the points' order
sjoin(points, polygons, predicate) ==
    IF points = <<>> THEN <<>>
    ELSE LET pt == Head(points)
             Hit(j) == Holds(predicate, pt, polygons[j].geometry)
             hits == SelectSeq([j \in DOMAIN polygons |-> j], Hit)
         IN [n \in DOMAIN hits |->
                [LAT |-> pt.LAT, LON |-> pt.LON, Masculin |-> pt.Masculin,
                 Feminin |-> pt.Feminin, index_right |-> hits[n]]]
            \o sjoin(Tail(points), polygons, predicate)

\* a join on strict containment
SjoinWithin(points, polygons) == sjoin(points, polygons, "within")

\* safe_sjoin (lines 116-121); the frame of load_se_data has no index_ column
\* to strip
safe_sjoin(points, polygons) == sjoin(points, polygons, "intersects")

\* points_gdf[points_gdf.geometry.within(poly)], line 201
drawn_filter(points, poly) ==
    LET InPoly(pt) == within(pt, poly)
    IN SelectSeq(points, InPoly)

(***************************************************************************)
(* The sidebar's attribute query (lines 133-148).                         *)
(***************************************************************************)
\* line 142
idse_list_of(gdf_commune) ==
    <<NoFilter>> \o sorted(unique(Column(gdf_commune, "idse_new")))

\* a filter that treats "No filter" as a zone identifier
FilterAlways(gdf_commune, idse_selected) ==
    LET IsSel(r) == r.idse_new = idse_selected
    IN SelectSeq(gdf_commune, IsSel)

\* lines 145-148
gdf_idse_of(gdf_commune, idse_selected) ==
    LET IsSel(r) == r.idse_new = idse_selected
    IN IF idse_selected = NoFilter THEN gdf_commune
       ELSE SelectSeq(gdf_commune, IsSel)

AttributeQuery(gdf, w) ==
    LET region_box == selectbox(w.Region, sorted(unique(Column(gdf, "region"))))
        InRegion(r) == r.region = region_box.value
        gdf_r == SelectSeq(gdf, InRegion)
        cercle_box == selectbox(w.Cercle, sorted(unique(Column(gdf_r, "cercle"))))
        InCercle(r) == r.cercle = cercle_box.value
        gdf_c == SelectSeq(gdf_r, InCercle)
        commune_box == selectbox(w.Commune, sorted(unique(Column(gdf_c, "commune"))))
        InCommune(r) == r.commune = commune_box.value
        gdf_commune == SelectSeq(gdf_c, InCommune)
        idse_list == idse_list_of(gdf_commune)
        se_box == selectbox(w.SE, idse_list)
    IN [widgets |-> [Region |-> region_box, Cercle |-> cercle_box,
                     Commune |-> commune_box, SE |-> se_box],
        gdf_commune |-> gdf_commune,
        idse_list |-> idse_list,
        idse_selected |-> se_box.value,
        gdf_idse |-> gdf_idse_of(gdf_commune, se_box.value)]

(***************************************************************************)
(* The two statistics blocks.                                              *)
(***************************************************************************)
\* lines 195-232: the statistics of the last drawn feature
PolygonStats(points, drawings) ==
    IF drawings = <<>> THEN [pts |-> <<>>, stats |-> NoStats, raised |-> FALSE]
    ELSE LET poly == drawings[Len(drawings)].geometry
             pts_poly == drawn_filter(points.rows, poly)
             shown == Report(coerced_sum(pts_poly, points.dtypes, "Masculin"),
                             coerced_sum(pts_poly, points.dtypes, "Feminin"))
         IN IF pts_poly = <<>>
            THEN [pts |-> pts_poly, stats |-> EmptyNote, raised |-> FALSE]
            ELSE [pts |-> pts_poly, stats |-> shown,
                  raised |-> shown.k = "raise" \/ PieRaises(shown)]

\* lines 236-273: the statistics of the selected SE
SEStats(points, gdf_idse, idse_selected) ==
    IF idse_selected = NoFilter
    THEN [pts |-> <<>>, stats |-> NoStats, raised |-> FALSE]
    ELSE LET pts_se == safe_sjoin(points.rows, gdf_idse)
             shown == Report(series_sum(pts_se, points.dtypes, "Masculin"),
                             series_sum(pts_se, points.dtypes, "Feminin"))
         IN [pts |-> pts_se, stats |-> shown,
             raised |-> shown.k = "raise" \/ PieRaises(shown)]

(***************************************************************************)
(* One script run.                                                         *)
(***************************************************************************)
BlankRun ==
    [trigger |-> "new session", stage |-> "not run", username |-> None,
     password |-> "", login_error |-> FALSE, auth_at_gate |-> FALSE,
     loaded |-> FALSE, sidebar |-> FALSE, boxes |-> FALSE, map |-> FALSE,
     idse_list |-> <<>>, gdf_idse |-> <<>>,
     pts_poly |-> <<>>, poly_stats |-> NoStats, poly_raised |-> FALSE,
     pts_se |-> <<>>, se_stats |-> NoStats, se_raised |-> FALSE]

\* a gate that lets every run through
NeverStops(ss) == FALSE

\* lines 45 and 59: the run ends in the login block when auth_ok is false
stops_at_gate(ss) == ~ss.auth_ok

\* lines 45-59: the run of an unauthenticated session.  The sidebar's
\* selectboxes and the map are not rendered, so their state is dropped.
LoginBlock(ss, ev, trigger) ==
    LET pressed == ev.kind = "login"
        ok == pressed /\ PasswordMatches(ev.username, ev.password)
        base == [BlankRun EXCEPT !.trigger = trigger,
                                 !.username = ev.username,
                                 !.password = ev.password]
    IN [session_state |->
            IF ok THEN [ss EXCEPT !.auth_ok = TRUE,
                                  !.username = ev.username,
                                  !.user_role = USERS[ev.username]["role"]]
            ELSE ss,
        widgets |-> NoWidgets,
        all_drawings |-> <<>>,
        rerun |-> ok,
        run |-> [base EXCEPT !.stage = IF ok THEN "rerun" ELSE "stopped",
                             !.login_error = pressed /\ ~ok]]

\* lines 61-282: the run of an authenticated session
Dashboard(ss, w, drawings, ev, trigger) ==
    LET gdf == load_se_data(se_src)
        s1 == IF ss.points_gdf = NoneFrame
              THEN [ss EXCEPT !.points_gdf = <<load_points(csv)>>]
              ELSE ss
        points_gdf == s1.points_gdf[1]
        base == [BlankRun EXCEPT !.trigger = trigger, !.auth_at_gate = ss.auth_ok,
                                 !.loaded = TRUE, !.sidebar = TRUE]
        q == AttributeQuery(gdf, w)
        ps == PolygonStats(points_gdf, drawings)
        \* an exception in the polygon block ends the run before the SE block
        se == IF ps.raised THEN [pts |-> <<>>, stats |-> NoStats, raised |-> FALSE]
              ELSE SEStats(points_gdf, q.gdf_idse, q.idse_selected)
    IN IF ev.kind = "logout"
       THEN [session_state |-> logout(s1), widgets |-> w,
             all_drawings |-> drawings, rerun |-> TRUE,
             run |-> [base EXCEPT !.stage = "rerun"]]
       ELSE [session_state |-> s1, widgets |-> q.widgets,
             all_drawings |-> drawings, rerun |-> FALSE,
             run |-> [base EXCEPT
                        !.stage = IF ps.raised \/ se.raised THEN "error" ELSE "done",
                        !.boxes = TRUE, !.map = TRUE,
                        !.idse_list = q.idse_list, !.gdf_idse = q.gdf_idse,
                        !.pts_poly = ps.pts, !.poly_stats = ps.stats,
                        !.poly_raised = ps.raised,
                        !.pts_se = se.pts, !.se_stats = se.stats,
                        !.se_raised = se.raised]]

Script(stored, w, drawings, ev, trigger) ==
    LET ss == SessionInit(stored)
    IN IF stops_at_gate(ss) THEN LoginBlock(ss, ev, trigger)
       ELSE Dashboard(ss, w, drawings, ev, trigger)

Apply(r) ==
    /\ session_state' = r.session_state
    /\ widgets' = r.widgets
    /\ all_drawings' = r.all_drawings
    /\ run' = r.run
    /\ rerun' = r.rerun
    /\ UNCHANGED <<se_src, csv>>

(***************************************************************************)
(* The remote files.  Both are fetched once and never change.             *)
(***************************************************************************)
ZoneR1 == Rect(0, 0, 2, 2)
ZoneR2 == Rect(2, 0, 4, 2)

SeqsUpTo(S, lo, hi) == UNION {[1..n -> S] : n \in lo..hi}

\* SE files of up to NPoly valid features over two names at each level
SEFeatures ==
    [region : {NameA, NameB}, cercle : {NameA, NameB}, commune : {NameA, NameB},
     idse_new : {Zone10, Zone2}, geometry : {ZoneR1}]
SEFiles == SeqsUpTo(SEFeatures, 1, NPoly)

\* an SE file of one commune: zone "2", zone "10" beside it (they share the
\* edge x = 2), and a feature whose geometry is invalid
OneCommune ==
    <<[region |-> NameA, cercle |-> NameA, commune |-> NameA,
       idse_new |-> Zone2, geometry |-> ZoneR2],
      [region |-> NameA, cercle |-> NameA, commune |-> NameA,
       idse_new |-> Zone10, geometry |-> ZoneR1],
      [region |-> NameA, cercle |-> NameA, commune |-> NameB,
       idse_new |-> Zone2, geometry |-> InvalidGeom]>>

BothColumns == {"Masculin", "Feminin"}

\* a points file of two concessions, the first inside zone "10", the second
\* on the edge the two zones share
TwoPoints ==
    [columns |-> BothColumns,
     rows |-> <<[LAT |-> "1", LON |-> "1", Masculin |-> "5", Feminin |-> "3"],
                [LAT |-> "1", LON |-> "2", Masculin |-> "0", Feminin |-> "2"]>>]

\* points files of up to NRows rows whose coordinates are numbers,
\* infinities, blanks or text
CoordFiles ==
    [columns : {BothColumns},
     rows : SeqsUpTo([LAT : {"1", "inf", "abc", ""}, LON : {"1", "2", "3", "inf"},
                      Masculin : {"5"}, Feminin : {"3"}], 0, NRows)]

\* points files of up to NRows rows inside or outside zone "10" whose counts
\* are numbers, blanks or text, and files without the count columns
CountFiles ==
    [columns : {BothColumns},
     rows : SeqsUpTo([LAT : {"1"}, LON : {"1", "3"},
                      Masculin : {"5", "", "abc"}, Feminin : {"3", ""}], 1, NRows)]
    \cup
    [columns : {{"Feminin"}, {}},
     rows : SeqsUpTo([LAT : {"1"}, LON : {"1", "3"},
                      Masculin : {""}, Feminin : {""}], 1, NRows)]

\* a new browser session: nothing in the session state, the first run due
InitSession ==
    /\ session_state = NoKeys
    /\ widgets = NoWidgets
    /\ all_drawings = <<>>
    /\ run = BlankRun
    /\ rerun = TRUE

Init ==
    /\ se_src \in SEFiles
    /\ csv = TwoPoints
    /\ InitSession

InitPoints ==
    /\ se_src = OneCommune
    /\ csv \in CoordFiles \cup CountFiles
    /\ InitSession

(***************************************************************************)
(* Actions.                                                                *)
(***************************************************************************)
\* most features the user draws in a session
MaxDrawings == 1

\* the rectangles the draw tool is used for: one equal to the polygon of a
\* zone, one away from every point
DrawShapes == {Rect(0, 0, 2, 2), Rect(5, 5, 6, 6)}

\* the run of a new session, and the run st.rerun() asks for
Rerun ==
    /\ rerun
    /\ Apply(Script(session_state, widgets, all_drawings, NoEvent,
                    IF run.stage = "not run" THEN "new session" ELSE "rerun"))

\* the Login button of the login block, with the user and password entered
PressLogin(username, password) ==
    /\ ~rerun
    /\ run.stage = "stopped"
    /\ Apply(Script(session_state, widgets, all_drawings,
                    [kind |-> "login", username |-> username, password |-> password],
                    "login"))

\* the Logout button of the sidebar
PressLogout ==
    /\ ~rerun
    /\ run.sidebar
    /\ Apply(Script(session_state, widgets, all_drawings,
                    [NoEvent EXCEPT !.kind = "logout"], "logout"))

\* another option chosen in one of the four selectboxes.  The map component
\* is keyed by the map it shows: when the selection changes the map the
\* features drawn on it may or may not survive.
ChangeDropdown(label, value, keep) ==
    /\ ~rerun
    /\ run.boxes
    /\ value \in Range(widgets[label].options)
    /\ value # widgets[label].value
    /\ Apply(Script(session_state, [widgets EXCEPT ![label].value = value],
                    IF keep THEN all_drawings ELSE <<>>, NoEvent, "dropdown"))

\* a rectangle drawn on the map
DrawPolygon(shape) ==
    /\ ~rerun
    /\ run.map
    /\ Len(all_drawings) < MaxDrawings
    /\ Apply(Script(session_state, widgets,
                    Append(all_drawings, [type |-> "Feature", geometry |-> shape]),
                    NoEvent, "draw"))

Next ==
    \/ Rerun
    \/ \E u \in DOMAIN USERS, p \in Passwords : PressLogin(u, p)
    \/ PressLogout
    \/ \E l \in DOMAIN NoWidgets, keep \in BOOLEAN :
          \E v \in Range(widgets[l].options) : ChangeDropdown(l, v, keep)
    \/ \E g \in DrawShapes : DrawPolygon(g)

Spec == Init /\ [][Next]_vars

SpecPoints == InitPoints /\ [][Next]_vars

(***************************************************************************)
(* Properties.                                                             *)
(***************************************************************************)
\* the polygon records, the loaded points and the current selection
Polygons == load_se_data(se_src)
Selected == [l \in DOMAIN widgets |-> widgets[l].value]
LoadedRows == session_state.points_gdf[1].rows

\* the records of the selected region, cercle and commune
InSelectedCommune(r) ==
    /\ r.region = Selected.Region
    /\ r.cercle = Selected.Cercle
    /\ r.commune = Selected.Commune
CommuneSubset == SelectSeq(Polygons, InSelectedCommune)

\* the credential table as the specification gives it
Credentials ==
    {<<"admin", "admin2025", "Admin">>, <<"customer", "cust2025", "Customer">>}

\* C1: a Login press with a user's exact password authenticates the session
\* as that user with that user's role; a press with any other password shows
\* the error and leaves auth_ok false, username None and user_role None.
C1_Login ==
    /\ {<<u, USERS[u].password, USERS[u].role>> : u \in DOMAIN USERS} = Credentials
    /\ run.trigger = "login" =>
         \E c \in Credentials :
            /\ c[1] = run.username
            /\ IF run.password = c[2]
               THEN /\ session_state.auth_ok = TRUE
                    /\ session_state.username = c[1]
                    /\ session_state.user_role = c[3]
                    /\ ~run.login_error
               ELSE /\ run.login_error
                    /\ session_state.auth_ok = FALSE
                    /\ session_state.username = None
                    /\ session_state.user_role = None

\* a press with the password of the other user is refused
C1_Witness ==
    /\ run.trigger = "login"
    /\ run.username = "admin" /\ run.password = "cust2025"
    /\ run.login_error /\ ~AuthOk(session_state)

\* C2: auth_ok becomes true only by a Login press with the right password and
\* false only by a Logout press; the Logout press deletes every session key,
\* the run after it sets the four defaults, and a dropdown change, a drawn
\* polygon or a failed login leaves auth_ok as it was.
C2_AuthCycle ==
    [][/\ (AuthOk(session_state') /\ ~AuthOk(session_state)) =>
            /\ run'.trigger = "login"
            /\ <<run'.username, run'.password, session_state'.user_role>>
                  \in Credentials
       /\ (~AuthOk(session_state') /\ AuthOk(session_state)) =>
            run'.trigger = "logout"
       /\ run'.trigger = "logout" => DOMAIN session_state' = {}
       /\ (run.trigger = "logout" /\ run'.trigger = "rerun") =>
            session_state' = [auth_ok |-> FALSE, username |-> None,
                              user_role |-> None, points_gdf |-> NoneFrame]
       /\ (run'.trigger \in {"dropdown", "draw"} \/ run'.login_error) =>
            AuthOk(session_state') = AuthOk(session_state)
      ]_vars

\* the session right after a Logout press of an authenticated user
C2_Witness ==
    /\ run.trigger = "logout" /\ run.auth_at_gate
    /\ DOMAIN session_state = {} /\ rerun

\* C3: the selected cercle occurs among the records of the selected region,
\* the selected commune among those of that region and cercle, and a selected
\* zone among those of that region, cercle and commune.
C3_Cascade ==
    run.boxes =>
        /\ \E r \in Range(Polygons) : r.region = Selected.Region
        /\ \E r \in Range(Polygons) :
              r.region = Selected.Region /\ r.cercle = Selected.Cercle
        /\ \E r \in Range(Polygons) : InSelectedCommune(r)
        /\ \/ Selected.SE = NoFilter
           \/ \E r \in Range(Polygons) :
                 InSelectedCommune(r) /\ r.idse_new = Selected.SE

\* a region chosen whose cercle the region shown before does not have
C3_Witness ==
    /\ run.trigger = "dropdown"
    /\ Selected.Region = NameB
    /\ \A r \in Range(Polygons) : r.region = NameA => r.cercle # Selected.Cercle
    /\ \E r \in Range(Polygons) : r.region = NameA

\* the zone identifiers of the selected commune
CommuneZones == {r.idse_new : r \in Range(CommuneSubset)}

\* strictly increasing in the lexical order: sorted, without duplicates
StrictlySorted(s) == \A i, j \in DOMAIN s : i < j => LexLess(s[i], s[j])

\* C4 as stated: the zone dropdown's candidate list is exactly the sorted
\* distinct zone_id values of the selected commune, in lexical order, with no
\* duplicates and no other entries.
C4_ZoneListAsStated ==
    run.boxes =>
        /\ widgets.SE.options = run.idse_list
        /\ StrictlySorted(run.idse_list)
        /\ Range(run.idse_list) = CommuneZones

\* C4 as amended: the zone dropdown's candidate list is the entry "No filter"
\* followed by exactly the distinct zone_id values of the selected commune in
\* lexical order, without duplicates.
C4_ZoneList ==
    run.boxes =>
        /\ widgets.SE.options = run.idse_list
        /\ Len(run.idse_list) >= 1
        /\ Head(run.idse_list) = NoFilter
        /\ StrictlySorted(Tail(run.idse_list))
        /\ Range(Tail(run.idse_list)) = CommuneZones

\* a commune whose file lists zone "2" before zone "10"
C4_Witness ==
    /\ run.boxes
    /\ run.idse_list = <<NoFilter, Zone10, Zone2>>
    /\ Column(CommuneSubset, "idse_new") = <<Zone2, Zone10>>

\* C5: with "No filter" the active subset is the whole subset of the selected
\* commune; with a zone selected it is exactly the records of that subset
\* whose idse_new is the selection.
C5_ActiveSubset ==
    LET IsZone(r) == r.idse_new = Selected.SE
    IN run.boxes =>
          IF Selected.SE = NoFilter THEN run.gdf_idse = CommuneSubset
          ELSE run.gdf_idse = SelectSeq(CommuneSubset, IsZone)

\* a zone selected in a commune of two zones, after "No filter" showed both
C5_Witness ==
    /\ run.boxes /\ run.trigger = "dropdown"
    /\ Selected.SE = Zone2
    /\ Len(CommuneSubset) = 2 /\ Len(run.gdf_idse) = 1

\* where a point lies with respect to a rectangle
Locate(pt, g) ==
    IF pt.LON.k # "num" \/ pt.LAT.k # "num" THEN "exterior"
    ELSE IF \/ pt.LON.v < g.x1 \/ pt.LON.v > g.x2
            \/ pt.LAT.v < g.y1 \/ pt.LAT.v > g.y2 THEN "exterior"
    ELSE IF pt.LON.v \in {g.x1, g.x2} \/ pt.LAT.v \in {g.y1, g.y2} THEN "boundary"
    ELSE "interior"

SamePoint(row, pt) ==
    /\ row.LAT = pt.LAT /\ row.LON = pt.LON
    /\ row.Masculin = pt.Masculin /\ row.Feminin = pt.Feminin

\* C6: the attribute-query join includes a point in the interior or on the
\* boundary of the target polygon, the drawn-polygon filter only a point in
\* the interior; exterior points are in neither.
C6_Asymmetry ==
    /\ run.se_stats.k # "none" =>
          \A pt \in Range(LoadedRows), j \in DOMAIN run.gdf_idse :
              (\E row \in Range(run.pts_se) :
                   SamePoint(row, pt) /\ row.index_right = j)
              <=> Locate(pt, run.gdf_idse[j].geometry) \in {"interior", "boundary"}
    /\ run.poly_stats.k # "none" =>
          \A pt \in Range(LoadedRows) :
              pt \in Range(run.pts_poly)
              <=> Locate(pt, all_drawings[Len(all_drawings)].geometry) = "interior"

\* a point on the boundary of zone "10", counted for the zone and left out
\* of the same rectangle drawn on the map
C6_Witness ==
    /\ run.se_stats.k # "none" /\ run.poly_stats.k # "none"
    /\ Len(run.gdf_idse) = 1 /\ run.gdf_idse[1].geometry = ZoneR1
    /\ all_drawings[Len(all_drawings)].geometry = ZoneR1
    /\ \E pt \in Range(LoadedRows) :
          /\ Locate(pt, ZoneR1) = "boundary"
          /\ \E row \in Range(run.pts_se) : SamePoint(row, pt)
          /\ pt \notin Range(run.pts_poly)

\* the total the specification asks for: the sum of the column over the
\* rows, a missing or non-numeric value and a missing column counted as zero
ExpectedTotal(rows, col) ==
    IF col \notin csv.columns THEN 0
    ELSE SumSeq([i \in DOMAIN rows |-> ZeroFilled(rows[i][col])])

ExpectedStats(rows) ==
    [k |-> "shown", m |-> ExpectedTotal(rows, "Masculin"),
     f |-> ExpectedTotal(rows, "Feminin"),
     t |-> ExpectedTotal(rows, "Masculin") + ExpectedTotal(rows, "Feminin")]

\* C7: on both paths the result for a point subset is the triple (male total,
\* feminine total, their sum), each total the sum of the field with missing
\* and non-numeric values, and a missing column, counted as zero.
C7_Totals ==
    /\ (run.poly_stats.k # "none" /\ run.pts_poly # <<>>) =>
          run.poly_stats = ExpectedStats(run.pts_poly)
    /\ run.se_stats.k # "none" => run.se_stats = ExpectedStats(run.pts_se)

\* C8: with no point in the selected SE polygons, or none within the drawn
\* polygon, the block raises nothing and any totals shown are 0, 0, 0.
C8_EmptySubset ==
    /\ (run.se_stats.k # "none" /\ run.pts_se = <<>>) =>
          /\ ~run.se_raised
          /\ run.se_stats = [k |-> "shown", m |-> 0, f |-> 0, t |-> 0]
    /\ (run.poly_stats.k # "none" /\ run.pts_poly = <<>>) =>
          /\ ~run.poly_raised
          /\ run.poly_stats.k = "shown" =>
                run.poly_stats.m = 0 /\ run.poly_stats.f = 0 /\ run.poly_stats.t = 0

\* a coordinate that is the literal of a finite number
FiniteLiteral(tok) == IsInt(tok)
BothFinite(r) == FiniteLiteral(r.LAT) /\ FiniteLiteral(r.LON)

\* C9: a row of the CSV survives load_points if and only if both LAT and LON
\* parse as finite numbers.
C9_Survivors ==
    session_state # NoKeys /\ session_state.points_gdf # NoneFrame =>
        LET finite == SelectSeq(csv.rows, BothFinite)
        IN /\ Len(LoadedRows) = Len(finite)
           /\ \A i \in DOMAIN finite :
                 /\ LoadedRows[i].LAT = Num(IntOf(finite[i].LAT))
                 /\ LoadedRows[i].LON = Num(IntOf(finite[i].LON))

\* C10: a run that finds the session unauthenticated at the login check ends
\* there: it loads nothing and renders neither the sidebar, the map nor a
\* statistics block; so does the run that follows a logout, and no point data
\* is held by an unauthenticated session.
C10_Gate ==
    /\ (run.stage # "not run" /\ ~run.auth_at_gate) =>
          /\ run.stage \in {"stopped", "rerun"}
          /\ ~run.loaded /\ ~run.sidebar /\ ~run.boxes /\ ~run.map
          /\ run.poly_stats.k = "none" /\ run.se_stats.k = "none"
    /\ (run.trigger = "rerun" /\ ~AuthOk(session_state)) =>
          run.stage = "stopped" /\ ~run.loaded /\ ~run.sidebar
    /\ (session_state # NoKeys /\ ~AuthOk(session_state)) =>
          session_state.points_gdf = NoneFrame

\* the run that follows a logout
C10_Witness ==
    /\ run.trigger = "rerun" /\ run.stage = "stopped"
    /\ ~run.auth_at_gate /\ ~run.loaded
    /\ session_state # NoKeys /\ widgets = NoWidgets

====
